---- MODULE Spec2Model ----
(***************************************************************************)
(* Model of TxGasUtil (app/scripts/controllers/transactions/               *)
(* tx-gas-utils.js): analyzeGasUsage, estimateTxGasAndCollateral, setTxGas *)
(* and addGasBuffer, run once on one txMeta record.                        *)
(*                                                                         *)
(* JS values.  A string-or-undefined value is the record                   *)
(*   [def, pfx, digs]: def = FALSE is undefined; otherwise the string is   *)
(*   "0x" (when pfx) followed by the hex digits digs (numbers 0..15), so   *)
(*   "" is [TRUE, FALSE, <<>>] and "0x" is [TRUE, TRUE, <<>>].  Letter     *)
(*   case of hex digits is not modelled.                                   *)
(* The boolean bookkeeping flags of txMeta are only ever read through      *)
(*   their truthiness; an absent flag is modelled as FALSE.                *)
(***************************************************************************)
EXTENDS Integers, Sequences, FiniteSets, TLC

VARIABLES txMeta, txMeta0, getCodeResponse, block, pc, ret, err,
          estimateGasCalled, setTxGasCalled

vars == <<txMeta, txMeta0, getCodeResponse, block, pc, ret, err,
          estimateGasCalled, setTxGasCalled>>

----------------------------------------------------------------------------
(* Bounds of the model *)

\* gas amounts and block gas limits range over h * 2^26 + l, h \in 0..MaxHighWord
MaxHighWord == 1
\* storage amounts range over k * 64, k \in 0..MaxStorageUnits
MaxStorageUnits == 2

----------------------------------------------------------------------------
(* Strings, hex strings and big numbers *)

undefined == [def |-> FALSE, pfx |-> FALSE, digs |-> <<>>]
Str(p, d) == [def |-> TRUE, pfx |-> p, digs |-> d]
EmptyString == Str(FALSE, <<>>)
ZeroX == Str(TRUE, <<>>)

\* Boolean(v) of a string-or-undefined value: undefined and "" are falsy
Truthy(v) == v.def /\ (v.pfx \/ v.digs # <<>>)

RECURSIVE ToDigits(_)
ToDigits(n) == IF n < 16 THEN <<n>> ELSE Append(ToDigits(n \div 16), n % 16)

RECURSIVE FromDigits(_)
FromDigits(d) ==
  IF d = <<>> THEN 0
  ELSE FromDigits(SubSeq(d, 1, Len(d) - 1)) * 16 + d[Len(d)]

\* new BN(stripHexPrefix(inputHex), 16)
hexToBn(h) == FromDigits(h.digs)

\* addHexPrefix(inputBn.toString(16))
bnToHex(n) == Str(TRUE, ToDigits(n))

\* cfx-util addHexPrefix: a non-string is returned as it is
addHexPrefix(s) == IF s.def THEN [s EXCEPT !.pfx = TRUE] ELSE s

\* floor(x * n / d), computed so that no intermediate product overflows 32 bits
MulDiv(x, n, d) == (x \div d) * n + ((x % d) * n) \div d

\* targetBN.mul(new BN(numerator)).div(new BN(denominator))
BnMultiplyByFraction(x, n, d) == MulDiv(x, n, d)

\* bn.js stores a number in 26-bit words
WordBase == 67108864

(* BN.muln(num) with num = n/d a JS number: imuln multiplies every 26-bit   *)
(* word by num in floating point and keeps, per word, the integer part of  *)
(* the product (w & 0x3ffffff for the low bits, (w / 0x4000000) | 0 for    *)
(* the carry); the fractional part of each word's product is dropped.      *)
(* For n/d \in {9/10, 3/2} and w < 2^26 the integer part of the double     *)
(* product w * num is floor(w * n / d).                                    *)
RECURSIVE muln(_, _, _)
muln(x, n, d) ==
  IF x < WordBase THEN MulDiv(x, n, d)
  ELSE MulDiv(x % WordBase, n, d) + WordBase * muln(x \div WordBase, n, d)

----------------------------------------------------------------------------
(* Program constants *)

SIMPLE_GAS_COST == Str(TRUE, <<5, 2, 0, 8>>)
SIMPLE_STORAGE_COST == Str(TRUE, <<0>>)
SEND_ETHER_ACTION_KEY == "sentEther"
TRANSACTION_NO_CONTRACT_ERROR_KEY == "transactionErrorNoContract"
NoContractMessage ==
  "TxGasUtil - Trying to call a function on a non-contract address"

----------------------------------------------------------------------------
(* Inputs *)

GasAmounts ==
  {h * WordBase + l : h \in 0..MaxHighWord, l \in {10000, 21000, 60000, 1000000}}
BlockGasLimits ==
  {h * WordBase + l : h \in 0..MaxHighWord, l \in {100000, 30000000}}
StorageAmounts == {k * 64 : k \in 0..MaxStorageUnits}

\* txParams.gas as the caller may give it; "0x0186a0" has a leading zero
CallerGas ==
  {undefined, EmptyString, SIMPLE_GAS_COST, bnToHex(100000),
   Str(TRUE, <<0>> \o ToDigits(100000))}
CallerStorageLimit ==
  {undefined, EmptyString} \cup {bnToHex(s) : s \in StorageAmounts}
CallerData == {undefined, EmptyString, ZeroX, Str(TRUE, <<10, 9, 0, 5>>)}

\* Conflux addresses (shortened): type nibble 1 is a user, 8 a contract
UserAddress == Str(TRUE, <<1, 10, 11>>)
ContractAddress == Str(TRUE, <<8, 10, 11>>)
Recipients == {undefined, UserAddress, ContractAddress}

Categories == {SEND_ETHER_ACTION_KEY, "contractInteraction"}

\* eth_getCode of an address with no code: '0x' (geth) or '0x0' (ganache)
GetCodeResponses == {ZeroX, Str(TRUE, <<0>>)}

Blocks ==
  {[number |-> bnToHex(4660), gasLimit |-> bnToHex(g)] : g \in BlockGasLimits}
NoBlock == [number |-> undefined, gasLimit |-> undefined]

\* what query.estimateGas resolves with
EstimateResults ==
  {[gasUsed |-> bnToHex(g), storageCollateralized |-> bnToHex(s)] :
     g \in GasAmounts, s \in StorageAmounts}
NoResult == [gasUsed |-> undefined, storageCollateralized |-> undefined]

\* what query.estimateGas rejects with: an adapter error, with or without a key
NoKey == "undefined"
Error(m, k, g) == [message |-> m, errorKey |-> k, getCodeResponse |-> g]
EstimateErrors ==
  {Error("gas required exceeds allowance", NoKey, undefined),
   Error("execution reverted", "adapterErrorKey", undefined)}
NoError == Error("", NoKey, undefined)

NoFailure ==
  [set |-> FALSE, reason |-> "", errorKey |-> NoKey,
   debug |-> [blockNumber |-> undefined, blockGasLimit |-> undefined,
              hasGetCodeResponse |-> FALSE, getCodeResponse |-> undefined]]

\* a new unapproved transaction, as the controller hands it over
NewTxMeta(to, data, gas, storageLimit, category) ==
  [txParams |-> [to |-> to, data |-> data, gas |-> gas,
                 storageLimit |-> storageLimit],
   transactionCategory |-> category,
   simpleSend |-> FALSE,
   gasLimitSpecified |-> FALSE,
   storageLimitSpecified |-> FALSE,
   estimatedGas |-> undefined,
   estimatedStorage |-> undefined,
   simulationFails |-> NoFailure]

----------------------------------------------------------------------------
(* addGasBuffer *)

\* addGasBuffer(initialGasLimitHex, blockGasLimitHex)
addGasBuffer(initialGasLimitHex, blockGasLimitHex) ==
  LET initialGasLimitBn == hexToBn(initialGasLimitHex)
      blockGasLimitBn == hexToBn(blockGasLimitHex)
      upperGasLimitBn == muln(blockGasLimitBn, 9, 10)
      bufferedGasLimitBn == muln(initialGasLimitBn, 3, 2)
  IN  IF initialGasLimitBn > upperGasLimitBn THEN bnToHex(initialGasLimitBn)
      ELSE IF bufferedGasLimitBn < upperGasLimitBn
           THEN bnToHex(bufferedGasLimitBn)
           ELSE bnToHex(upperGasLimitBn)

----------------------------------------------------------------------------
(* estimateTxGasAndCollateral *)

\* isValidContractAddress(address) of cfx-util
isValidContractAddress(a) == a.def /\ a.pfx /\ Len(a.digs) > 0 /\ a.digs[1] = 8

\* lines 73-75: a recipient that is no contract address marks a simple send
MarkSimpleSend(m) ==
  IF Truthy(m.txParams.to) /\ ~isValidContractAddress(m.txParams.to)
  THEN [m EXCEPT !.simpleSend = TRUE]
  ELSE m

\* lines 78-84: which limits are specified; an absent storageLimit is defaulted
MarkSpecified(m) ==
  LET m1 == [m EXCEPT !.gasLimitSpecified = Truthy(m.txParams.gas),
                      !.storageLimitSpecified = Truthy(m.txParams.storageLimit)]
  IN  IF ~m1.storageLimitSpecified
      THEN [m1 EXCEPT !.txParams.storageLimit = SIMPLE_STORAGE_COST,
                      !.storageLimitSpecified = TRUE]
      ELSE m1

\* mutant of UseSpecified: a specified storageLimit alone short-circuits
UseSpecified_StorageOnly(m) == m.storageLimitSpecified /\ ~m.gasLimitSpecified

\* line 87
UseSpecified(m) == m.gasLimitSpecified /\ m.storageLimitSpecified

\* line 102: the truthiness of txParams.data
HasData(m) == Truthy(m.txParams.data)

\* mutant of FallbackGas: the whole block gas limit instead of 19/20 of it
FallbackGas_WholeBlock(blockGasLimitHex) ==
  bnToHex(hexToBn(blockGasLimitHex))

\* lines 123-125: 95% of the block gas limit
FallbackGas(blockGasLimitHex) ==
  bnToHex(BnMultiplyByFraction(hexToBn(blockGasLimitHex), 19, 20))

Outcome(m, kind, r, e) == [txMeta |-> m, kind |-> kind, ret |-> r, err |-> e]

\* mutant of Classify: the fixed cost is written before the data check
Classify_GasBeforeDataCheck(m, blockGasLimitHex, codeResponse) ==
  IF Truthy(m.txParams.to) /\ m.transactionCategory = SEND_ETHER_ACTION_KEY
  THEN LET m1 == [m EXCEPT !.txParams.gas = SIMPLE_GAS_COST,
                           !.simpleSend = TRUE]
       IN  IF HasData(m)
           THEN Outcome(m1, "throw", NoResult,
                  Error(NoContractMessage, TRANSACTION_NO_CONTRACT_ERROR_KEY,
                        codeResponse))
           ELSE Outcome(m1, "return", NoResult, NoError)
  ELSE Outcome([m EXCEPT !.txParams.gas = FallbackGas(blockGasLimitHex)],
               "await", NoResult, NoError)

\* lines 95-128, after the specified limits were found not to decide
Classify(m, blockGasLimitHex, codeResponse) ==
  IF Truthy(m.txParams.to) /\ m.transactionCategory = SEND_ETHER_ACTION_KEY
  THEN IF HasData(m)
       THEN Outcome(m, "throw", NoResult,
              Error(NoContractMessage, TRANSACTION_NO_CONTRACT_ERROR_KEY,
                    codeResponse))
       \* the string SIMPLE_GAS_COST is returned: destructuring
       \* { gasUsed, storageCollateralized } from it gives undefined twice
       ELSE Outcome([m EXCEPT !.txParams.gas = SIMPLE_GAS_COST,
                              !.simpleSend = TRUE],
                    "return", NoResult, NoError)
  ELSE Outcome([m EXCEPT !.txParams.gas = FallbackGas(blockGasLimitHex)],
               "await", NoResult, NoError)

\* estimateTxGasAndCollateral up to its return, throw or await of estimateGas
estimateTxGasAndCollateral(m, blockGasLimitHex, codeResponse) ==
  LET m1 == MarkSpecified(MarkSimpleSend(m))
  IN  IF UseSpecified(m1)
      THEN Outcome(m1, "return",
                   [gasUsed |-> m1.txParams.gas,
                    storageCollateralized |-> m1.txParams.storageLimit],
                   NoError)
      ELSE Classify(m1, blockGasLimitHex, codeResponse)

----------------------------------------------------------------------------
(* setTxGas *)

\* mutant of SetSimpleSend: the storage estimate handed in is kept
SetSimpleSend_KeepsEstimate(m) ==
  [m EXCEPT !.estimatedGas = m.txParams.gas]

\* lines 142-146
SetSimpleSend(m) ==
  [m EXCEPT !.estimatedGas = m.txParams.gas,
            !.estimatedStorage = SIMPLE_STORAGE_COST]

\* mutant of SetStorage: the network's storage estimate is kept
SetStorage_KeepsNetwork(m) == m

\* lines 148-150
SetStorage(m) ==
  IF m.storageLimitSpecified
  THEN [m EXCEPT !.estimatedStorage = m.txParams.storageLimit]
  ELSE m

\* lines 154-170
SetGas(m, blockGasLimitHex) ==
  IF m.gasLimitSpecified
  THEN [m EXCEPT !.estimatedGas = m.txParams.gas]
  ELSE LET m1 == [m EXCEPT !.txParams.gas =
                       addGasBuffer(m.estimatedGas, blockGasLimitHex)]
       IN  IF ~m1.storageLimitSpecified
           THEN [m1 EXCEPT !.txParams.storageLimit = m1.estimatedStorage]
           ELSE m1

\* setTxGas(txMeta, blockGasLimitHex, { estimatedGasHex, estimatedStorageHex })
setTxGas(m, blockGasLimitHex, est) ==
  LET m1 == [m EXCEPT !.estimatedGas = addHexPrefix(est.gasUsed),
                      !.estimatedStorage =
                         addHexPrefix(est.storageCollateralized)]
  IN  IF m1.simpleSend THEN SetSimpleSend(m1)
      ELSE SetGas(SetStorage(m1), blockGasLimitHex)

----------------------------------------------------------------------------
(* analyzeGasUsage *)

\* mutant of SimulationFails: getCodeResponse is attached whatever the error
SimulationFails_AlwaysCodeResponse(e, b) ==
  [set |-> TRUE, reason |-> e.message, errorKey |-> e.errorKey,
   debug |-> [blockNumber |-> b.number, blockGasLimit |-> b.gasLimit,
              hasGetCodeResponse |-> TRUE,
              getCodeResponse |-> e.getCodeResponse]]

\* lines 45-53: the catch block
SimulationFails(e, b) ==
  [set |-> TRUE, reason |-> e.message, errorKey |-> e.errorKey,
   debug |-> [blockNumber |-> b.number, blockGasLimit |-> b.gasLimit,
              hasGetCodeResponse |->
                 (e.errorKey = TRANSACTION_NO_CONTRACT_ERROR_KEY),
              getCodeResponse |->
                 IF e.errorKey = TRANSACTION_NO_CONTRACT_ERROR_KEY
                 THEN e.getCodeResponse ELSE undefined]]

Init ==
  /\ \E to \in Recipients, data \in CallerData, gas \in CallerGas,
        storageLimit \in CallerStorageLimit, category \in Categories :
       txMeta = NewTxMeta(to, data, gas, storageLimit, category)
  /\ txMeta0 = txMeta
  /\ getCodeResponse \in GetCodeResponses
  /\ block = NoBlock
  /\ pc = "getBlock"
  /\ ret = NoResult
  /\ err = NoError
  /\ estimateGasCalled = FALSE
  /\ setTxGasCalled = FALSE

\* line 29 resolves; lines 33-40 run estimateTxGasAndCollateral up to its
\* return, throw or its await of query.estimateGas
GetBlockOk ==
  /\ pc = "getBlock"
  /\ \E b \in Blocks :
       LET o == estimateTxGasAndCollateral(txMeta, b.gasLimit, getCodeResponse)
       IN  /\ block' = b
           /\ txMeta' = o.txMeta
           /\ ret' = o.ret
           /\ err' = o.err
           /\ estimateGasCalled' = (o.kind = "await")
           /\ pc' = CASE o.kind = "return" -> "returned"
                      [] o.kind = "throw" -> "thrown"
                      [] o.kind = "await" -> "estimateGas"
  /\ UNCHANGED <<txMeta0, getCodeResponse, setTxGasCalled>>

\* line 29 rejects: analyzeGasUsage rejects, nothing was touched
GetBlockFail ==
  /\ pc = "getBlock"
  /\ pc' = "raised"
  /\ UNCHANGED <<txMeta, txMeta0, getCodeResponse, block, ret, err,
                 estimateGasCalled, setTxGasCalled>>

\* line 128 resolves
EstimateGasOk ==
  /\ pc = "estimateGas"
  /\ \E r \in EstimateResults : ret' = r
  /\ pc' = "returned"
  /\ UNCHANGED <<txMeta, txMeta0, getCodeResponse, block, err,
                 estimateGasCalled, setTxGasCalled>>

\* line 128 rejects
EstimateGasFail ==
  /\ pc = "estimateGas"
  /\ \E e \in EstimateErrors : err' = e
  /\ pc' = "thrown"
  /\ UNCHANGED <<txMeta, txMeta0, getCodeResponse, block, ret,
                 estimateGasCalled, setTxGasCalled>>

\* lines 41-42 and 57-61
SetTxGas ==
  /\ pc = "returned"
  /\ txMeta' = setTxGas(txMeta, block.gasLimit, ret)
  /\ setTxGasCalled' = TRUE
  /\ pc' = "done"
  /\ UNCHANGED <<txMeta0, getCodeResponse, block, ret, err, estimateGasCalled>>

\* lines 43-56
Catch ==
  /\ pc = "thrown"
  /\ txMeta' = [txMeta EXCEPT !.simulationFails = SimulationFails(err, block)]
  /\ pc' = "done"
  /\ UNCHANGED <<txMeta0, getCodeResponse, block, ret, err,
                 estimateGasCalled, setTxGasCalled>>

Next ==
  \/ GetBlockOk
  \/ GetBlockFail
  \/ EstimateGasOk
  \/ EstimateGasFail
  \/ SetTxGas
  \/ Catch

Spec == Init /\ [][Next]_vars

----------------------------------------------------------------------------
(* The cases the claims speak of, read off the record as it was handed in *)

SimpleTransfer0 == txMeta0.transactionCategory = SEND_ETHER_ACTION_KEY
NonContractRecipient0 ==
  Truthy(txMeta0.txParams.to) /\ ~isValidContractAddress(txMeta0.txParams.to)
CallerGaveGas0 == Truthy(txMeta0.txParams.gas)
CallerGaveStorageLimit0 == Truthy(txMeta0.txParams.storageLimit)
CallerGaveData0 == Truthy(txMeta0.txParams.data)

Finished == pc = "done"
Succeeded == pc = "done" /\ setTxGasCalled
Failed == pc = "done" /\ txMeta.simulationFails.set
NoContractRejection ==
  Failed /\ txMeta.simulationFails.errorKey = TRANSACTION_NO_CONTRACT_ERROR_KEY

GasFieldsUntouched ==
  /\ txMeta.txParams.gas = txMeta0.txParams.gas
  /\ txMeta.txParams.storageLimit = txMeta0.txParams.storageLimit
  /\ txMeta.estimatedGas = txMeta0.estimatedGas
  /\ txMeta.estimatedStorage = txMeta0.estimatedStorage

----------------------------------------------------------------------------
(* C1 *)

\* C1 as stated: a simple transfer to a non-contract recipient with call data
\* always ends in the non-contract-call failure with txParams.gas unchanged,
\* whatever gas and storageLimit the caller supplied.
C1_Original ==
  (Finished /\ SimpleTransfer0 /\ NonContractRecipient0 /\ CallerGaveData0)
    => (NoContractRejection /\ txMeta.txParams.gas = txMeta0.txParams.gas)

\* C1 amended: a simple transfer to a non-contract recipient with call data,
\* for which the caller supplied no gas, ends in the non-contract-call
\* failure with txParams.gas unchanged; with caller-supplied gas the call
\* short-circuits and no failure is recorded.
C1_RejectedUnlessGasSpecified ==
  (Finished /\ SimpleTransfer0 /\ NonContractRecipient0 /\ CallerGaveData0)
    => /\ txMeta.txParams.gas = txMeta0.txParams.gas
       /\ ~CallerGaveGas0 => (NoContractRejection /\ ~setTxGasCalled)
       /\ CallerGaveGas0 => (~txMeta.simulationFails.set /\ setTxGasCalled)

C1_Witness ==
  /\ NoContractRejection
  /\ SimpleTransfer0 /\ NonContractRecipient0 /\ CallerGaveData0
  /\ ~CallerGaveGas0
  /\ CallerGaveStorageLimit0

----------------------------------------------------------------------------
(* C2 *)

\* C2 as stated: a simple transfer to a non-contract recipient without call
\* data ends with estimatedGas = 0x5208, estimatedStorage = 0x0,
\* txParams.gas = 0x5208 and no simulationFails, also when the caller
\* supplied its own gas or storageLimit.
C2_Original ==
  (Finished /\ SimpleTransfer0 /\ NonContractRecipient0 /\ ~CallerGaveData0)
    => /\ txMeta.estimatedGas = SIMPLE_GAS_COST
       /\ txMeta.estimatedStorage = SIMPLE_STORAGE_COST
       /\ txMeta.txParams.gas = SIMPLE_GAS_COST
       /\ ~txMeta.simulationFails.set

\* C2 amended: the same, for the transactions for which the caller supplied
\* no gas (a storageLimit may have been supplied); with caller-supplied gas
\* estimatedGas and txParams.gas are the caller's gas.
C2_SimpleTransferCostUnlessGasSpecified ==
  (Finished /\ SimpleTransfer0 /\ NonContractRecipient0 /\ ~CallerGaveData0)
    => /\ txMeta.estimatedStorage = SIMPLE_STORAGE_COST
       /\ ~txMeta.simulationFails.set
       /\ ~CallerGaveGas0 => /\ txMeta.estimatedGas = SIMPLE_GAS_COST
                             /\ txMeta.txParams.gas = SIMPLE_GAS_COST
       /\ CallerGaveGas0 => /\ txMeta.estimatedGas = txMeta0.txParams.gas
                            /\ txMeta.txParams.gas = txMeta0.txParams.gas

C2_Witness ==
  /\ Succeeded
  /\ SimpleTransfer0 /\ NonContractRecipient0 /\ ~CallerGaveData0
  /\ ~CallerGaveGas0
  /\ CallerGaveStorageLimit0
  /\ txMeta0.txParams.storageLimit # SIMPLE_STORAGE_COST
  /\ txMeta.estimatedGas = SIMPLE_GAS_COST

----------------------------------------------------------------------------
(* C3 *)

\* C3 as stated: after a successful analyzeGasUsage, whenever
\* storageLimitSpecified is true, estimatedStorage is the storageLimit the
\* caller originally put in txParams.
C3_Original ==
  (Succeeded /\ txMeta.storageLimitSpecified)
    => txMeta.estimatedStorage = txMeta0.txParams.storageLimit

\* C3 amended: after a successful analyzeGasUsage, whenever the caller
\* supplied a storageLimit and simpleSend is not set, estimatedStorage is
\* the caller's storageLimit, whatever estimateGas returned; when simpleSend
\* is set, estimatedStorage is 0x0.
C3_CallerStorageWinsUnlessSimpleSend ==
  Succeeded
    => /\ (CallerGaveStorageLimit0 /\ ~txMeta.simpleSend)
             => txMeta.estimatedStorage = txMeta0.txParams.storageLimit
       /\ txMeta.simpleSend => txMeta.estimatedStorage = SIMPLE_STORAGE_COST

C3_Witness ==
  /\ Succeeded
  /\ CallerGaveStorageLimit0 /\ ~txMeta.simpleSend
  /\ estimateGasCalled
  /\ ret.storageCollateralized # txMeta0.txParams.storageLimit
  /\ txMeta.estimatedStorage = txMeta0.txParams.storageLimit

----------------------------------------------------------------------------
(* C4 *)

\* C4 as stated: when analyzeGasUsage ends on the failure path, txParams.gas,
\* txParams.storageLimit, estimatedGas and estimatedStorage are what they
\* were before the call.
C4_Original == Failed => GasFieldsUntouched

\* C4 amended: on the failure path estimatedGas and estimatedStorage are what
\* they were before the call; txParams.storageLimit is the caller's value,
\* or 0x0 when the caller supplied none; txParams.gas is unchanged after the
\* non-contract-call rejection and is 19/20 of the block gas limit after a
\* failing estimateGas.
C4_FailureLeavesEstimatesUntouched ==
  Failed
    => /\ txMeta.estimatedGas = txMeta0.estimatedGas
       /\ txMeta.estimatedStorage = txMeta0.estimatedStorage
       /\ txMeta.txParams.storageLimit =
            IF CallerGaveStorageLimit0 THEN txMeta0.txParams.storageLimit
            ELSE SIMPLE_STORAGE_COST
       /\ ~estimateGasCalled => txMeta.txParams.gas = txMeta0.txParams.gas
       /\ estimateGasCalled
            => txMeta.txParams.gas =
                 bnToHex(MulDiv(hexToBn(block.gasLimit), 19, 20))

C4_Witness ==
  /\ Failed
  /\ estimateGasCalled
  /\ CallerGaveStorageLimit0
  /\ txMeta.txParams.gas # txMeta0.txParams.gas

----------------------------------------------------------------------------
(* C5 *)

\* the reference: upper = floor(limit * 9 / 10), buffered = floor(initial * 3 / 2)
ReferenceBuffer(initial, blockGasLimit) ==
  LET upper == MulDiv(blockGasLimit, 9, 10)
      buffered == MulDiv(initial, 3, 2)
  IN  IF initial > upper THEN initial
      ELSE IF buffered < upper THEN buffered ELSE upper

----------------------------------------------------------------------------
(* C6 *)

\* C6: when the caller supplied both gas and storageLimit, estimateGas is
\* never called, the 95% fallback is never written, the pair returned by
\* estimateTxGasAndCollateral is the caller's, and txParams.gas and
\* txParams.storageLimit stay what they were.
C6_BothSpecifiedShortCircuits ==
  (CallerGaveGas0 /\ CallerGaveStorageLimit0)
    => /\ ~estimateGasCalled
       /\ pc \notin {"estimateGas", "thrown"}
       /\ txMeta.txParams.gas = txMeta0.txParams.gas
       /\ txMeta.txParams.storageLimit = txMeta0.txParams.storageLimit
       /\ pc \in {"returned", "done"}
            => ret = [gasUsed |-> txMeta0.txParams.gas,
                      storageCollateralized |-> txMeta0.txParams.storageLimit]

C6_Witness ==
  /\ Succeeded
  /\ CallerGaveGas0 /\ CallerGaveStorageLimit0
  /\ ~txMeta.simpleSend
  /\ txMeta.txParams.gas # FallbackGas(block.gasLimit)
  /\ txMeta.estimatedGas = txMeta0.txParams.gas

----------------------------------------------------------------------------
(* C7 *)

\* C7: once estimateTxGasAndCollateral has run, gasLimitSpecified is true
\* iff the caller supplied gas and storageLimitSpecified is true iff the
\* caller supplied a storageLimit; so after a network estimate for a caller
\* who supplied no storageLimit, txParams.storageLimit is the network's
\* storageCollateralized.
C7_FlagsTellWhatCallerSupplied ==
  /\ pc \notin {"getBlock", "raised"}
       => /\ txMeta.gasLimitSpecified <=> CallerGaveGas0
          /\ txMeta.storageLimitSpecified <=> CallerGaveStorageLimit0
  /\ (Succeeded /\ estimateGasCalled /\ ~txMeta.simpleSend
        /\ ~CallerGaveStorageLimit0)
       => txMeta.txParams.storageLimit = ret.storageCollateralized

----------------------------------------------------------------------------
(* C8 *)

\* C8: analyzeGasUsage raises only when getBlockByNumber fails, and then
\* txMeta is as it was handed in; a failure raised inside
\* estimateTxGasAndCollateral is caught: the call ends with simulationFails =
\* {reason: message, errorKey, debug: {blockNumber, blockGasLimit}}, debug
\* carrying getCodeResponse exactly for the non-contract-call rejection, and
\* setTxGas is not called.
C8_FailuresAreRecorded ==
  /\ pc = "raised" => (txMeta = txMeta0 /\ block = NoBlock /\ err = NoError)
  /\ pc = "thrown" => err # NoError
  /\ (Finished /\ err # NoError)
       => /\ ~setTxGasCalled
          /\ txMeta.simulationFails.set
          /\ txMeta.simulationFails.reason = err.message
          /\ txMeta.simulationFails.errorKey = err.errorKey
          /\ txMeta.simulationFails.debug.blockNumber = block.number
          /\ txMeta.simulationFails.debug.blockGasLimit = block.gasLimit
          /\ txMeta.simulationFails.debug.hasGetCodeResponse
               <=> err.message = NoContractMessage
          /\ txMeta.simulationFails.debug.getCodeResponse =
               IF err.message = NoContractMessage THEN getCodeResponse
               ELSE undefined
  /\ (Finished /\ err = NoError)
       => (setTxGasCalled /\ ~txMeta.simulationFails.set)

C8_Witness ==
  /\ Failed
  /\ estimateGasCalled
  /\ err \in EstimateErrors
  /\ txMeta.simulationFails.errorKey # NoKey
  /\ ~txMeta.simulationFails.debug.hasGetCodeResponse

----------------------------------------------------------------------------
(* C9 *)

\* C9: whenever setTxGas runs with simpleSend true, txParams.gas holds the
\* fixed simple-transfer cost, so the record ends with estimatedGas =
\* txParams.gas = 0x5208 and estimatedStorage = 0x0; simpleSend is never
\* true for a record whose gas is the fallback or came through estimateGas.
C9_SimpleSendHasFixedCost ==
  (Succeeded /\ txMeta.simpleSend)
    => /\ txMeta.txParams.gas = SIMPLE_GAS_COST
       /\ txMeta.estimatedGas = SIMPLE_GAS_COST
       /\ txMeta.estimatedStorage = SIMPLE_STORAGE_COST
       /\ ~estimateGasCalled

----------------------------------------------------------------------------
(* C10 *)

\* C10: call data "0x" is no call data: without caller-supplied gas, a
\* simple transfer to a non-contract recipient with data "0x" is not
\* rejected and ends with estimatedGas = 0x5208 and no simulationFails.
C10_ZeroXIsNoData ==
  (Finished /\ SimpleTransfer0 /\ NonContractRecipient0 /\ ~CallerGaveGas0
     /\ txMeta0.txParams.data = ZeroX)
    => (txMeta.estimatedGas = SIMPLE_GAS_COST /\ ~txMeta.simulationFails.set)

====
